---- MODULE Spec2Model ----
(***************************************************************************)
(* dbmigrate: dependency ordering and checksum gating of SQL change files. *)
(*                                                                         *)
(* Three specifications share this module:                                 *)
(*   SpecSort  topological_sort, one action per step of its code, run on   *)
(*             every dependency graph within the bounds;                   *)
(*   SpecGate  check_migration / check_script, applied to every log,       *)
(*             name and checksum within the bounds;                        *)
(*   Spec      main(), run repeatedly over files that are edited between   *)
(*             runs and a dbmigrate_log table that receives the printed    *)
(*             insert statements when they are executed.                   *)
(***************************************************************************)
EXTENDS Integers, Sequences, FiniteSets, TLC

\* ---------------------------------------------------------------- bounds
MaxNodes == 3
MaxEdges == 4
MaxScripts == 3
MaxMigrations == 2
MaxDeps == 1
MaxChecksum == 2
MaxLog == 3
MaxGateNames == 2
MaxRuns == 3
MaxBuildScripts == 2
MaxBuildRefs == 3
MaxLines == 2
MaxRunScripts == 2
MaxRunMigrations == 2
MaxRunDeps == 2
MaxBody == 5

\* ---------------------------------------------------------------- helpers
Range(s) == {s[i] : i \in DOMAIN s}

SeqUpTo(S, k) == UNION {[1..m -> S] : m \in 0..k}

Occurrences(s, x) == Cardinality({i \in DOMAIN s : s[i] = x})

\* index of the first occurrence of x in s, 0 when absent
IndexOf(s, x) == IF x \in Range(s) THEN CHOOSE i \in DOMAIN s : s[i] = x /\ \A j \in 1..(i - 1) : s[j] # x ELSE 0

\* SpecSort: the argument and the locals of topological_sort, and where it is
VARIABLES graph, counts, q, result, visited, sortPc

\* the rows of dbmigrate_log as (name, checksum), in created_at order
VARIABLES log

\* SpecGate: the last call of check_migration or check_script and its outcome
VARIABLES gate

\* Spec: the files under test_scripts/ as process_migrations and
\* process_scripts read them, and what the runs of main() have done
VARIABLES migrations, scripts, pc, events, outcome, runs, logAtStart, edited, prev, flagged

\* Spec: main's locals dependency_graph and sorted_list in the last run
VARIABLES dependency_graph, sorted_list

\* SpecBuild: one call of build_dependency_graph (its argument, its result)
VARIABLES build

\* SpecExtract: one call of extract_depends_on and extract_sources on a text
VARIABLES extract

sortVars == <<graph, counts, q, result, visited, sortPc>>

mainVars == <<migrations, scripts, pc, events, outcome, runs, logAtStart, edited, prev, flagged, dependency_graph, sorted_list>>

functionVars == <<build, extract>>

vars == <<graph, counts, q, result, visited, sortPc, log, gate, migrations, scripts, pc, events, outcome, runs, logAtStart, edited, prev, flagged, dependency_graph, sorted_list, build, extract>>

\* ------------------------------------------------------- topological sort
\* A Dict[str, List[str]] keeps its keys in insertion order: keys is that
\* order, succ the successor list of each key.
Keys(g) == Range(g.keys)

\* the bug of counting a successor once per list, however often it is listed
RECURSIVE CountEdgesTo_OncePerList(_, _, _)
CountEdgesTo_OncePerList(ks, succ, n) ==
    IF ks = <<>> THEN 0
    ELSE (IF n \in Range(succ[Head(ks)]) THEN 1 ELSE 0)
         + CountEdgesTo_OncePerList(Tail(ks), succ, n)

\* for _, edges in graph.items(): for e in edges: result[e] += 1
RECURSIVE CountEdgesTo(_, _, _)
CountEdgesTo(ks, succ, n) ==
    IF ks = <<>> THEN 0
    ELSE Occurrences(succ[Head(ks)], n) + CountEdgesTo(Tail(ks), succ, n)

\* Counter with 0 for every key, plus 1 for every occurrence of a successor
predecessor_counts(g) == [n \in Keys(g) |-> CountEdgesTo(g.keys, g.succ, n)]

\* q = list([n for n, c in counts.items() if c == 0])
RECURSIVE ZeroCountKeys(_, _)
ZeroCountKeys(ks, c) ==
    IF ks = <<>> THEN <<>>
    ELSE (IF c[Head(ks)] = 0 THEN <<Head(ks)>> ELSE <<>>) \o ZeroCountKeys(Tail(ks), c)

\* the bug of seeding the queue with the first free key only
InitialQueue_FirstOnly(g, c) ==
    LET z == ZeroCountKeys(g.keys, c)
    IN  IF z = <<>> THEN z ELSE <<Head(z)>>

InitialQueue(g, c) == ZeroCountKeys(g.keys, c)

\* the bug of enqueueing one decrement early as well
EnqueueWhenZero_OffByOne(c) == c = 0 \/ c = 1

\* if counts[e] == 0: q.append(e)
EnqueueWhenZero(c) == c = 0

\* the body of "for e in graph[current]", for one e
RelaxEdge(st, e) ==
    LET c1 == [st.counts EXCEPT ![e] = @ - 1]
    IN  [st EXCEPT !.counts = c1,
                   !.q = IF EnqueueWhenZero(c1[e]) THEN Append(st.q, e) ELSE st.q]

RECURSIVE RelaxEdges(_, _)
RelaxEdges(st, edges) ==
    IF edges = <<>> THEN st
    ELSE RelaxEdges(RelaxEdge(st, Head(edges)), Tail(edges))

\* the bug of taking the oldest element of the queue, q.pop(0)
PopIndex_Fifo(qq) == 1

\* current = q.pop(): list.pop() removes the last element
PopIndex(qq) == Len(qq)

\* one iteration of "while q"
SortStep(g, st) ==
    LET i == PopIndex(st.q)
        current == st.q[i]
        rest == SubSeq(st.q, 1, i - 1) \o SubSeq(st.q, i + 1, Len(st.q))
    IN  RelaxEdges([q |-> rest,
                    visited |-> st.visited \cup {current},
                    result |-> Append(st.result, current),
                    counts |-> st.counts],
                   g.succ[current])

\* the bug of testing the counters for a negative value instead of a nonzero one
CountsLeft_Negative(c) == \E n \in DOMAIN c : c[n] < 0

\* for c in counts.values(): if c != 0: raise
CountsLeft(c) == \E n \in DOMAIN c : c[n] # 0

SortStart(g) ==
    LET c == predecessor_counts(g)
    IN  [q |-> InitialQueue(g, c), visited |-> {}, result |-> <<>>, counts |-> c]

RECURSIVE SortLoop(_, _)
SortLoop(g, st) == IF st.q = <<>> THEN st ELSE SortLoop(g, SortStep(g, st))

\* the whole function: [raised |-> TRUE] for the exception, otherwise the list
topological_sort(g) ==
    LET st == SortLoop(g, SortStart(g))
    IN  IF CountsLeft(st.counts) THEN [raised |-> TRUE]
        ELSE [raised |-> FALSE, value |-> st.result]

\* ---- the variables of a specification that does not use them
SortIdle ==
    /\ graph = [keys |-> <<>>, succ |-> <<>>]
    /\ counts = <<>>
    /\ q = <<>>
    /\ result = <<>>
    /\ visited = {}
    /\ sortPc = "unused"

GateIdle == gate = [kind |-> "none", name |-> 0, checksum |-> 0, apply |-> FALSE, warned |-> FALSE]

BuildIdle == build = [scripts |-> <<>>, result |-> [keys |-> <<>>, succ |-> <<>>], done |-> FALSE]

ExtractIdle == extract = [contents |-> <<>>, depends_on |-> <<>>, sources |-> <<>>, done |-> FALSE]

MainIdle ==
    /\ migrations = <<>>
    /\ scripts = <<>>
    /\ pc = "unused"
    /\ events = <<>>
    /\ outcome = "none"
    /\ runs = 0
    /\ logAtStart = <<>>
    /\ edited = FALSE
    /\ prev = [ran |-> FALSE, ok |-> FALSE, fromEmpty |-> FALSE, same |-> FALSE]
    /\ flagged = {}
    /\ dependency_graph = [keys |-> <<>>, succ |-> <<>>]
    /\ sorted_list = [raised |-> FALSE, value |-> <<>>]

\* ---- SpecSort: the function step by step
\* Every graph whose successors are keys, with n keys and at most MaxEdges
\* edges, duplicates included.  The keys are 1..n in insertion order: the
\* function reads names only through the dict, so a renaming loses nothing.
\* lens gives the length of each successor list, flat their concatenation.
RECURSIVE SumTo(_, _)
SumTo(lens, k) == IF k = 0 THEN 0 ELSE lens[k] + SumTo(lens, k - 1)

GraphOf(n, lens, flat) ==
    [keys |-> [i \in 1..n |-> i],
     succ |-> [k \in 1..n |-> SubSeq(flat, SumTo(lens, k - 1) + 1, SumTo(lens, k))]]

InitSort == /\ \E n \in 0..MaxNodes : \E lens \in [1..n -> 0..MaxEdges] :
                  /\ SumTo(lens, n) <= MaxEdges
                  /\ \E flat \in [1..SumTo(lens, n) -> 1..n] : graph = GraphOf(n, lens, flat)
            /\ counts = <<>>
            /\ q = <<>>
            /\ result = <<>>
            /\ visited = {}
            /\ sortPc = "start"
            /\ log = <<>>
            /\ GateIdle
            /\ MainIdle
            /\ BuildIdle
            /\ ExtractIdle

SortBegin ==
    /\ sortPc = "start"
    /\ LET st == SortStart(graph)
       IN  /\ counts' = st.counts
           /\ q' = st.q
           /\ result' = st.result
           /\ visited' = st.visited
    /\ sortPc' = "loop"
    /\ UNCHANGED <<graph, log, gate, functionVars, mainVars>>

SortIterate ==
    /\ sortPc = "loop"
    /\ q # <<>>
    /\ LET st == SortStep(graph, [q |-> q, visited |-> visited,
                                  result |-> result, counts |-> counts])
       IN  /\ counts' = st.counts
           /\ q' = st.q
           /\ result' = st.result
           /\ visited' = st.visited
    /\ UNCHANGED <<graph, sortPc, log, gate, functionVars, mainVars>>

SortRaise == /\ sortPc = "loop"
             /\ q = <<>>
             /\ CountsLeft(counts)
             /\ sortPc' = "raised"
             /\ UNCHANGED <<graph, counts, q, result, visited, log, gate, functionVars, mainVars>>

SortReturn == /\ sortPc = "loop"
              /\ q = <<>>
              /\ ~CountsLeft(counts)
              /\ sortPc' = "returned"
              /\ UNCHANGED <<graph, counts, q, result, visited, log, gate, functionVars, mainVars>>

SortDone == sortPc \in {"raised", "returned"}

\* ---- an independent reading of the graph, for the statements below
Edges(g) == {<<a, b>> \in Keys(g) \X Keys(g) : b \in Range(g.succ[a])}

RECURSIVE Closure(_, _)
Closure(g, D) ==
    LET D2 == D \cup UNION {Range(g.succ[d]) : d \in D}
    IN  IF D2 = D THEN D ELSE Closure(g, D2)

\* the nodes reachable from a by one edge or more
Descendants(g, a) == Closure(g, Range(g.succ[a]))

HasCycle(g) == \E a \in Keys(g) : a \in Descendants(g, a)

\* every occurrence of a in s lies before every occurrence of b, and both occur
Precedes(s, a, b) ==
    /\ a \in Range(s)
    /\ b \in Range(s)
    /\ \A i, j \in DOMAIN s : (s[i] = a /\ s[j] = b) => i < j

\* C1: for an acyclic graph the sort returns, and for every edge A -> B of the
\* graph A stands before B in the returned sequence.
C1_TopologicalValidity ==
    (SortDone /\ ~HasCycle(graph)) =>
        /\ sortPc = "returned"
        /\ \A e \in Edges(graph) : Precedes(result, e[1], e[2])

\* a returned order of a three-node chain one of whose edges is declared twice
C1_Witness ==
    /\ sortPc = "returned"
    /\ \E a, b, c \in Keys(graph) :
          /\ a # b /\ b # c /\ a # c
          /\ <<a, b>> \in Edges(graph) /\ <<b, c>> \in Edges(graph)
          /\ Occurrences(graph.succ[a], b) >= 2
          /\ IndexOf(result, a) < IndexOf(result, b)
          /\ IndexOf(result, b) < IndexOf(result, c)

\* C6: for a graph with a cycle the sort ends with the exception, so nothing
\* is returned, whatever part of the order it had built.
C6_CycleDetection == (SortDone /\ HasCycle(graph)) => sortPc = "raised"

\* the exception after a zero in-degree node was already placed in result
\* (a cycle reachable from it), on a graph that also has a self-dependency
C6_Witness ==
    /\ sortPc = "raised"
    /\ result # <<>>
    /\ \E a \in Keys(graph) : a \in Range(graph.succ[a])
    /\ \E a \in Range(result) : \E b \in Descendants(graph, a) : b \in Descendants(graph, b)

\* C7: for an acyclic graph the returned sequence is a permutation of the
\* keys: every key occurs in it exactly once.
C7_Permutation ==
    (SortDone /\ ~HasCycle(graph)) =>
        /\ sortPc = "returned"
        /\ Len(result) = Cardinality(Keys(graph))
        /\ \A n \in Keys(graph) : Occurrences(result, n) = 1

\* a returned order of MaxNodes nodes where one edge is declared twice and
\* another node has two distinct predecessors
C7_Witness ==
    /\ sortPc = "returned"
    /\ Len(result) = MaxNodes
    /\ \E a, b \in Keys(graph) : Occurrences(graph.succ[a], b) >= 2
    /\ \E a, b, c \in Keys(graph) :
          a # b /\ <<a, c>> \in Edges(graph) /\ <<b, c>> \in Edges(graph)

\* the successors in list order that lose their last predecessor when the
\* node with successor list succ is removed: entry k is one when the counter
\* c of its node equals the occurrences of that node in succ up to k
RECURSIVE NewlyFree(_, _, _)
NewlyFree(succ, c, k) ==
    IF k = 0 THEN <<>>
    ELSE NewlyFree(succ, c, k - 1)
         \o (IF c[succ[k]] = Occurrences(SubSeq(succ, 1, k), succ[k])
             THEN <<succ[k]>> ELSE <<>>)

\* the keys no successor list names, in key order
FreeKeys(g) == SelectSeq(g.keys, LAMBDA n : \A a \in Keys(g) : n \notin Range(g.succ[a]))

\* C14: every step of the sort is one function of the graph and the state before
\* it, so two executions on the same graph go through the same states and
\* return the same sequence: the queue starts as the keys without predecessor
\* in key order, and each iteration removes the most recently enqueued node
\* (the last of the queue), appends it to the result, and enqueues behind the
\* older entries the successors it frees, in successor list order.
C14_LifoDeterministic ==
    [][/\ sortPc = "start" => (q' = FreeKeys(graph) /\ result' = <<>>)
       /\ (sortPc = "loop" /\ q # <<>>) =>
             LET current == q[Len(q)]
                 older == SubSeq(q, 1, Len(q) - 1)
             IN  /\ result' = Append(result, current)
                 /\ counts' = [n \in DOMAIN counts |->
                                  counts[n] - Occurrences(graph.succ[current], n)]
                 /\ q' = older \o NewlyFree(graph.succ[current], counts,
                                            Len(graph.succ[current]))]_vars

\* a sort that had two nodes queued, removed the younger one b, then b's
\* successor c enqueued by that removal, and only then the older one a
C14_Witness ==
    /\ sortPc = "returned"
    /\ \E a, b, c \in Keys(graph) :
          /\ Cardinality({a, b, c}) = 3
          /\ IndexOf(graph.keys, a) < IndexOf(graph.keys, b)
          /\ FreeKeys(graph) = <<a, b>>
          /\ c \in Range(graph.succ[b])
          /\ result = <<b, c, a>>

NextSort == SortBegin \/ SortIterate \/ SortRaise \/ SortReturn

SpecSort == InitSort /\ [][NextSort]_vars

\* the function runs on: a step that can be taken is taken
SpecSortFair == SpecSort /\ WF_vars(NextSort)

\* no counter is negative, and no node stands twice in the queue and the
\* result together: a node enqueued is in the queue until it is removed and in
\* the result from then on, so none was enqueued, or appended, twice
SortBounded ==
    /\ \A n \in DOMAIN counts : counts[n] >= 0
    /\ \A n \in Keys(graph) : Occurrences(q \o result, n) <= 1
    /\ visited = Range(result)

\* C17: on every graph, cyclic or not and with duplicate edges, the sort ends
\* (it returns or raises), and on the way no counter becomes negative and no
\* node is enqueued or appended more than once.
C17_TerminatesBounded == []SortBounded /\ <>SortDone

\* a finished sort of a cyclic graph with a duplicate edge that removed a node
C17_Witness ==
    /\ SortDone
    /\ HasCycle(graph)
    /\ \E a, b \in Keys(graph) : Occurrences(graph.succ[a], b) >= 2
    /\ result # <<>>

\* ------------------------------------------------------ idempotency gate
Max(S) == CHOOSE x \in S : \A y \in S : y <= x

\* load_newest_checksum_by_name returns None when the name has no row
None == 0

Checksums == 1..MaxChecksum

Min(S) == CHOOSE x \in S : \A y \in S : x <= y

\* the bug of ordering by created_at ascending: the oldest row of the name
load_newest_checksum_by_name_Oldest(lg, name) ==
    LET rows == {i \in DOMAIN lg : lg[i].name = name}
    IN  IF rows = {} THEN None ELSE lg[Min(rows)].checksum

\* select checksum from dbmigrate_log where name = :name order by created_at
\* desc, first row.  The log is kept in created_at order, so the newest row of
\* a name is its last one.
load_newest_checksum_by_name(lg, name) ==
    LET rows == {i \in DOMAIN lg : lg[i].name = name}
    IN  IF rows = {} THEN None ELSE lg[Max(rows)].checksum

\* warned: whether warning("migration {} has invalid checksum") was called
check_migration(lg, name, checksum) ==
    LET db_checksum == load_newest_checksum_by_name(lg, name)
    IN  IF db_checksum = None THEN [apply |-> TRUE, warned |-> FALSE]
        ELSE IF db_checksum # checksum THEN [apply |-> FALSE, warned |-> TRUE]
        ELSE [apply |-> TRUE, warned |-> FALSE]

check_script(lg, name, checksum) ==
    LET db_checksum == load_newest_checksum_by_name(lg, name)
    IN  IF db_checksum = None THEN TRUE
        ELSE IF db_checksum # checksum THEN TRUE
        ELSE FALSE

\* ---- SpecGate: the two functions on every log, name and checksum
GateNames == 1..MaxGateNames

LogRows(names) == [name : names, checksum : Checksums]

InitGate ==
    /\ log \in SeqUpTo(LogRows(GateNames), MaxLog)
    /\ GateIdle
    /\ SortIdle
    /\ MainIdle
    /\ BuildIdle
    /\ ExtractIdle

CheckMigration ==
    \E name \in GateNames, checksum \in Checksums :
        /\ gate.kind = "none"
        /\ LET r == check_migration(log, name, checksum)
           IN  gate' = [kind |-> "migration", name |-> name, checksum |-> checksum,
                        apply |-> r.apply, warned |-> r.warned]
        /\ UNCHANGED <<log, functionVars, sortVars, mainVars>>

CheckScript ==
    \E name \in GateNames, checksum \in Checksums :
        /\ gate.kind = "none"
        /\ gate' = [kind |-> "script", name |-> name, checksum |-> checksum,
                    apply |-> check_script(log, name, checksum), warned |-> FALSE]
        /\ UNCHANGED <<log, functionVars, sortVars, mainVars>>

NextGate == CheckMigration \/ CheckScript

SpecGate == InitGate /\ [][NextGate]_vars

\* the rows of a name, read from the log without the lookup above
RowsOf(lg, name) == {i \in DOMAIN lg : lg[i].name = name}

IsLatestRow(lg, i) == \A j \in RowsOf(lg, lg[i].name) : j <= i

\* C3: check_migration answers "apply" exactly when the log has no row for the
\* name; with a latest row of the same checksum it answers "do not apply" and
\* does not warn.
C3_MigrationGate ==
    gate.kind = "migration" =>
        /\ gate.apply = (RowsOf(log, gate.name) = {})
        /\ (\E i \in RowsOf(log, gate.name) :
               IsLatestRow(log, i) /\ log[i].checksum = gate.checksum)
           => (~gate.apply /\ ~gate.warned)

\* C4: check_script answers "apply" exactly when the log has no row for the
\* name or the latest row of the name has another checksum; older rows of the
\* name do not matter.
C4_ScriptGate ==
    gate.kind = "script" =>
        gate.apply = (\/ RowsOf(log, gate.name) = {}
                      \/ \E i \in RowsOf(log, gate.name) :
                            IsLatestRow(log, i) /\ log[i].checksum # gate.checksum)

\* the third run of content X, Y, X: rows X then Y for the name, X offered again
\* and applied although an older row has the offered checksum
C4_Witness ==
    /\ gate.kind = "script"
    /\ gate.apply
    /\ \E i, j \in RowsOf(log, gate.name) :
          /\ i < j
          /\ IsLatestRow(log, j)
          /\ log[i].checksum = gate.checksum
          /\ log[j].checksum # gate.checksum

\* a script left alone: the latest row has the offered checksum, an older row of
\* the name has another one
C4_WitnessSkip ==
    /\ gate.kind = "script"
    /\ ~gate.apply
    /\ \E i, j \in RowsOf(log, gate.name) :
          i < j /\ IsLatestRow(log, j) /\ log[i].checksum # gate.checksum

\* ------------------------------------------------------------ orchestrator
\* File stems.  Scripts are 1..MaxScripts, migrations -1..-MaxMigrations, so
\* that the names of one discovery pass are unique; a dependency may also
\* name MaxScripts + 1, for which no file exists.
ScriptNames == 1..MaxScripts

DependencyNames == 1..(MaxScripts + 1)

EmptyGraph == [keys |-> <<>>, succ |-> <<>>]

\* result[n] read through the defaultdict: a missing key is inserted with []
Vivify(g, n) ==
    IF n \in Keys(g) THEN g
    ELSE [keys |-> Append(g.keys, n), succ |-> (n :> <<>>) @@ g.succ]

\* result[d].append(script.name)
AppendSuccessor(g, d, name) ==
    LET g1 == Vivify(g, d)
    IN  [g1 EXCEPT !.succ[d] = Append(@, name)]

RECURSIVE AddDependencies(_, _, _)
AddDependencies(g, deps, name) ==
    IF deps = <<>> THEN g
    ELSE AddDependencies(AppendSuccessor(g, Head(deps), name), Tail(deps), name)

RECURSIVE BuildFrom(_, _)
BuildFrom(g, ss) ==
    IF ss = <<>> THEN g
    ELSE BuildFrom(AddDependencies(Vivify(g, Head(ss).name), Head(ss).depends_on, Head(ss).name),
                   Tail(ss))

\* build_dependency_graph_with_sources: the sources are appended like the
\* dependencies, after them
RECURSIVE BuildFromWithSources(_, _)
BuildFromWithSources(g, ss) ==
    IF ss = <<>> THEN g
    ELSE BuildFromWithSources(
             AddDependencies(
                 AddDependencies(Vivify(g, Head(ss).name), Head(ss).depends_on, Head(ss).name),
                 Head(ss).sources, Head(ss).name),
             Tail(ss))

build_dependency_graph_with_sources(ss) == BuildFromWithSources(EmptyGraph, ss)

build_dependency_graph(ss) == BuildFrom(EmptyGraph, ss)

\* ---- SpecBuild: build_dependency_graph on every list of scripts
\* Up to MaxBuildScripts scripts, names repeated or not, with at most
\* MaxBuildRefs entries of depends_on and sources in all.  lens gives the
\* lengths of depends_on (slot 2i-1) and sources (slot 2i) of script i, flat
\* the concatenation of all of them.
BuildScriptNames == 1..MaxBuildScripts

BuildNames == 1..(MaxBuildScripts + 1)

BuildScriptsOf(n, names, lens, flat) ==
    [i \in 1..n |->
        [name |-> names[i],
         depends_on |-> SubSeq(flat, SumTo(lens, 2 * i - 2) + 1, SumTo(lens, 2 * i - 1)),
         sources |-> SubSeq(flat, SumTo(lens, 2 * i - 1) + 1, SumTo(lens, 2 * i))]]

InitBuild ==
    /\ \E n \in 0..MaxBuildScripts : \E names \in [1..n -> BuildScriptNames] :
          \E lens \in [1..(2 * n) -> 0..MaxBuildRefs] :
             /\ SumTo(lens, 2 * n) <= MaxBuildRefs
             /\ \E flat \in [1..SumTo(lens, 2 * n) -> BuildNames] :
                   build = [scripts |-> BuildScriptsOf(n, names, lens, flat),
                            result |-> EmptyGraph, done |-> FALSE]
    /\ log = <<>>
    /\ GateIdle
    /\ SortIdle
    /\ MainIdle
    /\ ExtractIdle

BuildDependencyGraph ==
    /\ ~build.done
    /\ build' = [build EXCEPT !.result = build_dependency_graph(build.scripts),
                              !.done = TRUE]
    /\ UNCHANGED <<log, gate, extract, sortVars, mainVars>>

NextBuild == BuildDependencyGraph

SpecBuild == InitBuild /\ [][NextBuild]_vars

\* how many times the scripts named b declare a in depends_on
RECURSIVE Declarations(_, _, _)
Declarations(ss, b, a) ==
    IF ss = <<>> THEN 0
    ELSE (IF Head(ss).name = b THEN Occurrences(Head(ss).depends_on, a) ELSE 0)
         + Declarations(Tail(ss), b, a)

ScriptNamesIn(ss) == {ss[i].name : i \in DOMAIN ss}

DependsOnNamesIn(ss) == UNION {Range(ss[i].depends_on) : i \in DOMAIN ss}

\* C12: the keys of the graph are the script names and the names listed in any
\* depends_on, each once; a name no script declares has an empty successor
\* list; b stands in the successor list of a as many times as the scripts named
\* b declare a; sources add no node and no edge.
C12_GraphShape ==
    build.done =>
        LET g == build.result
            ss == build.scripts
        IN  /\ Keys(g) = ScriptNamesIn(ss) \cup DependsOnNamesIn(ss)
            /\ Len(g.keys) = Cardinality(Keys(g))
            /\ DOMAIN g.succ = Keys(g)
            /\ \A a \in Keys(g) : a \notin DependsOnNamesIn(ss) => g.succ[a] = <<>>
            /\ \A a \in Keys(g) :
                  /\ Range(g.succ[a]) \subseteq ScriptNamesIn(ss)
                  /\ \A b \in ScriptNamesIn(ss) :
                        Occurrences(g.succ[a], b) = Declarations(ss, b, a)

\* a built graph of scripts where one declares the same dependency twice, one
\* key has no dependents, and a source names something that is no key
C12_Witness ==
    /\ build.done
    /\ \E i \in DOMAIN build.scripts : \E a \in BuildNames :
          /\ Occurrences(build.scripts[i].depends_on, a) = 2
          /\ Occurrences(build.result.succ[a], build.scripts[i].name) = 2
    /\ \E a \in Keys(build.result) : build.result.succ[a] = <<>>
    /\ \E i \in DOMAIN build.scripts : \E x \in Range(build.scripts[i].sources) :
          x \notin Keys(build.result)

\* What a run emits, in the order of the calls: print(contents) and
\* print(statement) on stdout, warning(...) through logging.  name and checksum
\* say which record the call was made for.
Event(op, name, checksum) == [op |-> op, name |-> name, checksum |-> checksum]

\* ConsoleMigrationBackend.execute_migration: the file, then the insert statement
execute_migration(m) ==
    <<Event("contents", m.name, m.checksum), Event("insert", m.name, m.checksum)>>

\* ConsoleMigrationBackend.execute_script: the file, then the insert statement
execute_script(sc) ==
    <<Event("contents", sc.name, sc.checksum), Event("insert", sc.name, sc.checksum)>>

\* migrations = [m for m in migrations if check_migration(...)]
RECURSIVE SurvivingMigrations(_, _)
SurvivingMigrations(ms, lg) ==
    IF ms = <<>> THEN <<>>
    ELSE (IF check_migration(lg, Head(ms).name, Head(ms).checksum).apply
          THEN <<Head(ms)>> ELSE <<>>) \o SurvivingMigrations(Tail(ms), lg)

\* the warnings of that comprehension
RECURSIVE GateWarnings(_, _)
GateWarnings(ms, lg) ==
    IF ms = <<>> THEN <<>>
    ELSE (IF check_migration(lg, Head(ms).name, Head(ms).checksum).warned
          THEN <<Event("warning_checksum", Head(ms).name, Head(ms).checksum)>> ELSE <<>>)
         \o GateWarnings(Tail(ms), lg)

\* the bug of leaving the scripts unfiltered
SurvivingScripts_Unfiltered(ss, lg) == ss

\* scripts = [s for s in scripts if check_script(...)]
RECURSIVE SurvivingScripts(_, _)
SurvivingScripts(ss, lg) ==
    IF ss = <<>> THEN <<>>
    ELSE (IF check_script(lg, Head(ss).name, Head(ss).checksum)
          THEN <<Head(ss)>> ELSE <<>>) \o SurvivingScripts(Tail(ss), lg)

\* the scripts main hands to build_dependency_graph
GraphInput(discovered, surviving) == surviving

\* the migrations executed from the last to the first
RECURSIVE ExecuteMigrations_Reversed(_)
ExecuteMigrations_Reversed(ms) ==
    IF ms = <<>> THEN <<>>
    ELSE ExecuteMigrations_Reversed(Tail(ms)) \o execute_migration(Head(ms))

\* for m in migrations: backend.execute_migration(m)
RECURSIVE ExecuteMigrations(_)
ExecuteMigrations(ms) ==
    IF ms = <<>> THEN <<>> ELSE execute_migration(Head(ms)) \o ExecuteMigrations(Tail(ms))

\* script_map[s.name] = s: a later script of the same name replaces an earlier
ScriptMapGet(ss, name) == ss[Max({i \in DOMAIN ss : ss[i].name = name})]

\* a walk that gives up at the first name that has no script
RECURSIVE WalkOrder_StopAtMissing(_, _)
WalkOrder_StopAtMissing(order, ss) ==
    IF order = <<>> THEN <<>>
    ELSE IF \E i \in DOMAIN ss : ss[i].name = Head(order)
         THEN execute_script(ScriptMapGet(ss, Head(order)))
              \o WalkOrder_StopAtMissing(Tail(order), ss)
         ELSE <<Event("warning_missing", Head(order), None)>>

\* for script_name in sorted_list: execute, or warn when not in script_map
RECURSIVE WalkOrder(_, _)
WalkOrder(order, ss) ==
    IF order = <<>> THEN <<>>
    ELSE (IF \E i \in DOMAIN ss : ss[i].name = Head(order)
          THEN execute_script(ScriptMapGet(ss, Head(order)))
          ELSE <<Event("warning_missing", Head(order), None)>>)
         \o WalkOrder(Tail(order), ss)

\* main(): the gate, the graph, the migrations, then the sort and the scripts.
\* The exception of topological_sort ends the run after the migrations ran.
main(ms, ss, lg) ==
    LET surviving_migrations == SurvivingMigrations(ms, lg)
        surviving_scripts == SurvivingScripts(ss, lg)
        dg == build_dependency_graph(GraphInput(ss, surviving_scripts))
        before_sort == GateWarnings(ms, lg) \o ExecuteMigrations(surviving_migrations)
        sl == topological_sort(dg)
    IN  IF sl.raised
        THEN [events |-> before_sort, outcome |-> "raised",
              dependency_graph |-> dg, sorted_list |-> sl]
        ELSE [events |-> before_sort \o WalkOrder(sl.value, surviving_scripts),
              outcome |-> "ok", dependency_graph |-> dg, sorted_list |-> sl]

\* ---- Spec: runs of main over files that change between runs
\* k migrations and k scripts in discovery order; every file starts with
\* checksum 1 (checksums are compared for equality only)
MigrationFiles(k) == [j \in 1..k |-> [name |-> -j, checksum |-> 1]]

ScriptFiles(k) ==
    {[i \in 1..k |-> [name |-> i, checksum |-> 1, depends_on |-> d[i]]] :
        d \in [1..k -> SeqUpTo(DependencyNames, MaxDeps)]}

Init ==
    /\ migrations \in {MigrationFiles(k) : k \in 0..MaxMigrations}
    /\ scripts \in UNION {ScriptFiles(k) : k \in 0..MaxScripts}
    /\ log = <<>>
    /\ pc = "ready"
    /\ events = <<>>
    /\ outcome = "none"
    /\ runs = 0
    /\ logAtStart = <<>>
    /\ edited = FALSE
    /\ prev = [ran |-> FALSE, ok |-> FALSE, fromEmpty |-> FALSE, same |-> FALSE]
    /\ flagged = {}
    /\ dependency_graph = [keys |-> <<>>, succ |-> <<>>]
    /\ sorted_list = [raised |-> FALSE, value |-> <<>>]
    /\ GateIdle
    /\ SortIdle
    /\ BuildIdle
    /\ ExtractIdle

NamesOf(evs, op) == {evs[i].name : i \in {j \in DOMAIN evs : evs[j].op = op}}

\* one run of the program.  prev describes the run before this one, flagged
\* the migrations some run so far has warned about.
Main ==
    /\ pc \in {"ready", "ran", "idle"}
    /\ runs < MaxRuns
    /\ \E r \in {main(migrations, scripts, log)} :
           /\ events' = r.events
           /\ outcome' = r.outcome
           /\ flagged' = flagged \cup NamesOf(r.events, "warning_checksum")
           /\ dependency_graph' = r.dependency_graph
           /\ sorted_list' = r.sorted_list
    /\ pc' = "ran"
    /\ runs' = runs + 1
    /\ logAtStart' = log
    /\ prev' = [ran |-> runs > 0, ok |-> outcome = "ok",
                fromEmpty |-> logAtStart = <<>>, same |-> ~edited]
    /\ edited' = FALSE
    /\ UNCHANGED <<migrations, scripts, log, gate, functionVars, sortVars>>

\* the rows the printed insert statements make
RECURSIVE PrintedRows(_)
PrintedRows(evs) ==
    IF evs = <<>> THEN <<>>
    ELSE (IF Head(evs).op = "insert"
          THEN <<[name |-> Head(evs).name, checksum |-> Head(evs).checksum]>> ELSE <<>>)
         \o PrintedRows(Tail(evs))

\* the operator executes the output of the last run against the database
ExecutePrinted ==
    /\ pc = "ran"
    /\ runs < MaxRuns
    /\ PrintedRows(events) # <<>>
    /\ log' = log \o PrintedRows(events)
    /\ pc' = "idle"
    /\ UNCHANGED <<migrations, scripts, events, outcome, runs, logAtStart, edited, prev, flagged, dependency_graph, sorted_list, gate, functionVars, sortVars>>

\* a migration file is edited between two runs: its checksum changes
EditMigration ==
    \E i \in DOMAIN migrations, c \in Checksums :
        /\ pc \in {"ran", "idle"}
        /\ runs < MaxRuns
        /\ c # migrations[i].checksum
        /\ migrations' = [migrations EXCEPT ![i].checksum = c]
        /\ pc' = "idle"
        /\ edited' = TRUE
        /\ UNCHANGED <<scripts, log, events, outcome, runs, logAtStart, prev, flagged, dependency_graph, sorted_list, gate, functionVars, sortVars>>

\* a script file is edited between two runs: its checksum changes
EditScript ==
    \E i \in DOMAIN scripts, c \in Checksums :
        /\ pc \in {"ran", "idle"}
        /\ runs < MaxRuns
        /\ c # scripts[i].checksum
        /\ scripts' = [scripts EXCEPT ![i].checksum = c]
        /\ pc' = "idle"
        /\ edited' = TRUE
        /\ UNCHANGED <<migrations, log, events, outcome, runs, logAtStart, prev, flagged, dependency_graph, sorted_list, gate, functionVars, sortVars>>

Next == Main \/ ExecutePrinted \/ EditMigration \/ EditScript

Spec == Init /\ [][Next]_vars

\* ---- SpecRun: one run of main over every small input
\* Up to MaxRunMigrations migrations and MaxRunScripts scripts with at most
\* MaxRunDeps dependencies in all (lens their number per script, flat their
\* concatenation); for each file the log has no row ("none"), a row with the
\* file's checksum ("same") or a row with another checksum ("other").
RunDependencyNames == 1..(MaxRunScripts + 1)

RunScriptFiles(n, lens, flat) ==
    [i \in 1..n |->
        [name |-> i, checksum |-> 1,
         depends_on |-> SubSeq(flat, SumTo(lens, i - 1) + 1, SumTo(lens, i))]]

OtherChecksum == CHOOSE c \in Checksums : c # 1

RECURSIVE RunLog(_, _)
RunLog(names, status) ==
    IF names = <<>> THEN <<>>
    ELSE (IF status[Head(names)] = "none" THEN <<>>
          ELSE <<[name |-> Head(names),
                  checksum |-> IF status[Head(names)] = "same" THEN 1 ELSE OtherChecksum]>>)
         \o RunLog(Tail(names), status)

InitRun ==
    /\ \E m \in 0..MaxRunMigrations, n \in 0..MaxRunScripts :
          \E lens \in [1..n -> 0..MaxRunDeps] :
             /\ SumTo(lens, n) <= MaxRunDeps
             /\ \E flat \in [1..SumTo(lens, n) -> RunDependencyNames] :
                   \E status \in [((-m)..(-1)) \cup (1..n) -> {"none", "same", "other"}] :
                      /\ migrations = MigrationFiles(m)
                      /\ scripts = RunScriptFiles(n, lens, flat)
                      /\ log = RunLog([j \in 1..m |-> -j] \o [i \in 1..n |-> i], status)
    /\ pc = "ready"
    /\ events = <<>>
    /\ outcome = "none"
    /\ runs = 0
    /\ logAtStart = <<>>
    /\ edited = FALSE
    /\ prev = [ran |-> FALSE, ok |-> FALSE, fromEmpty |-> FALSE, same |-> FALSE]
    /\ flagged = {}
    /\ dependency_graph = [keys |-> <<>>, succ |-> <<>>]
    /\ sorted_list = [raised |-> FALSE, value |-> <<>>]
    /\ GateIdle
    /\ SortIdle
    /\ BuildIdle
    /\ ExtractIdle

\* the program is started once
RunOnce == runs = 0 /\ Main

NextRun == RunOnce

SpecRun == InitRun /\ [][NextRun]_vars

\* ---- what a run did, read from its events
\* right after a run: files and log are still those the run read
RunEnded == pc = "ran"

EventIndexes(op) == {i \in DOMAIN events : events[i].op = op}

Executed == NamesOf(events, "contents")

\* the place of the execution of a name in the run, 0 when it was not executed
ExecutedAt(name) ==
    IF name \in Executed
    THEN CHOOSE i \in EventIndexes("contents") : events[i].name = name
    ELSE 0

\* the dependencies the discovered scripts declare, as prerequisite -> dependent
DeclaredEdges(ss) == UNION {{<<d, ss[i].name>> : d \in Range(ss[i].depends_on)} : i \in DOMAIN ss}

RECURSIVE TransitiveClosure(_)
TransitiveClosure(R) ==
    LET R2 == R \cup {<<p[1][1], p[2][2]>> : p \in {pp \in R \X R : pp[1][2] = pp[2][1]}}
    IN  IF R2 = R THEN R ELSE TransitiveClosure(R2)

DeclaredCycle(ss) == \E e \in TransitiveClosure(DeclaredEdges(ss)) : e[1] = e[2]

\* the log as the run found it says the file is new or changed
NewOrChanged(f) ==
    \/ RowsOf(logAtStart, f.name) = {}
    \/ \E i \in RowsOf(logAtStart, f.name) :
          IsLatestRow(logAtStart, i) /\ logAtStart[i].checksum # f.checksum

\* the latest row of the file's name has another checksum than the file
Drifted(f) ==
    \E i \in RowsOf(logAtStart, f.name) :
        IsLatestRow(logAtStart, i) /\ logAtStart[i].checksum # f.checksum

\* C2: after a complete run that started from an empty log, the next run over
\* the same unchanged files executes no migration and no script.
C2_RerunExecutesNothing ==
    (RunEnded /\ prev.ran /\ prev.ok /\ prev.fromEmpty /\ prev.same) => Executed = {}

\* The same when the insert statements the first run printed were executed
\* against the database before the second run.
C2_RerunAfterExecutingOutput ==
    (RunEnded /\ prev.ran /\ prev.ok /\ prev.fromEmpty /\ prev.same /\ logAtStart # <<>>)
        => Executed = {}

\* ... and then no script is executed again: what reruns are migrations.
C2_ScriptsNotRerunAfterExecutingOutput ==
    (RunEnded /\ prev.ran /\ prev.ok /\ prev.fromEmpty /\ prev.same /\ logAtStart # <<>>)
        => Executed \cap ScriptNames = {}

\* C5: when the dependencies of a run contain a cycle the run aborts and has
\* executed nothing and recorded nothing, migrations included.
C5_CycleNoPartialApplication ==
    (RunEnded /\ DeclaredCycle(scripts)) =>
        /\ outcome = "raised"
        /\ Executed = {}
        /\ EventIndexes("insert") = {}

\* C8: two new-or-changed scripts X and Y with Y depending on X through
\* discovered scripts, unchanged ones included, are executed X before Y.
C8_OrderThroughAllDiscovered ==
    (RunEnded /\ outcome = "ok" /\ ~DeclaredCycle(scripts)) =>
        \A i, j \in DOMAIN scripts :
            (/\ NewOrChanged(scripts[i])
             /\ NewOrChanged(scripts[j])
             /\ <<scripts[i].name, scripts[j].name>> \in TransitiveClosure(DeclaredEdges(scripts)))
            => /\ ExecutedAt(scripts[i].name) > 0
               /\ ExecutedAt(scripts[i].name) < ExecutedAt(scripts[j].name)

\* C9: every change a run executes gets exactly one new log row with its name
\* and checksum, so the log grows by the number of executed changes.
C9_ExecutedIsLogged ==
    RunEnded =>
        LET new == SubSeq(log, Len(logAtStart) + 1, Len(log))
        IN  /\ SubSeq(log, 1, Len(logAtStart)) = logAtStart
            /\ Len(new) = Cardinality(EventIndexes("contents"))
            /\ \A i \in EventIndexes("contents") :
                  Cardinality({k \in DOMAIN new : new[k].name = events[i].name
                                                  /\ new[k].checksum = events[i].checksum}) = 1

\* What the run does for the log: right after the contents of each executed
\* change it prints one insert statement with the change's name and checksum,
\* and it prints no other insert statement.
C9_ExecutedIsPrinted ==
    RunEnded =>
        /\ \A i \in EventIndexes("contents") :
              /\ i + 1 \in EventIndexes("insert")
              /\ events[i + 1].name = events[i].name
              /\ events[i + 1].checksum = events[i].checksum
        /\ \A i \in EventIndexes("insert") : i - 1 \in EventIndexes("contents")

\* C10 without its last part: a drifted migration is warned about and left
\* out of the run, the migrations without a row still run, and nothing else
\* is warned about.
C10_DriftFlaggedInRun ==
    RunEnded =>
        /\ \A i \in DOMAIN migrations :
              Drifted(migrations[i]) =>
                  /\ migrations[i].name \in NamesOf(events, "warning_checksum")
                  /\ migrations[i].name \notin Executed
        /\ \A i \in DOMAIN migrations :
              RowsOf(logAtStart, migrations[i].name) = {} => migrations[i].name \in Executed
        /\ NamesOf(events, "warning_checksum") =
              {migrations[i].name : i \in {k \in DOMAIN migrations : Drifted(migrations[k])}}

\* C10: a migration whose latest row has another checksum is warned about and
\* not executed, the run goes on, no other case warns, and a migration once
\* warned about is executed in no later run.
C10_DriftNeverRerun ==
    /\ C10_DriftFlaggedInRun
    /\ RunEnded => \A n \in flagged : n \notin Executed


\* ---- dangling dependencies
\* the place of the missing-script warning about a name in the run, 0 when none
WarnedMissingAt(name) ==
    IF name \in NamesOf(events, "warning_missing")
    THEN CHOOSE i \in EventIndexes("warning_missing") : events[i].name = name
    ELSE 0

\* the pairs <<i, z>>: script i survived the gate of the run and declares a
\* dependency on z, a name no discovered script has
Dangling ==
    {p \in (DOMAIN scripts) \X DependencyNames :
        /\ NewOrChanged(scripts[p[1]])
        /\ p[2] \in Range(scripts[p[1]].depends_on)
        /\ \A j \in DOMAIN scripts : scripts[j].name # p[2]}

\* what C11 says of a surviving script named d and its dangling dependency z
DanglingHandled(d, z) ==
    /\ z \in Keys(dependency_graph)
    /\ d \in Range(dependency_graph.succ[z])
    /\ ~sorted_list.raised
    /\ Precedes(sorted_list.value, z, d)
    /\ WarnedMissingAt(z) > 0
    /\ \A i \in DOMAIN events :
          events[i].name = z => events[i].op \notin {"contents", "insert"}
    /\ ExecutedAt(d) > WarnedMissingAt(z)

\* C11 as stated: whenever a surviving script D declares a dependency on a name
\* Z that no script has, the graph has node Z with successor D, the sorter emits
\* Z before D, and the run warns at Z, executes nothing for Z and executes D
\* after the warning.
C11_DanglingNeverBlocks ==
    RunEnded => \A p \in Dangling : DanglingHandled(scripts[p[1]].name, p[2])

\* C11 amended: the same, in every run whose graph of surviving scripts is
\* acyclic (a cycle makes topological_sort raise before any script is walked).
C11_DanglingDoesNotBlock ==
    (RunEnded /\ ~HasCycle(dependency_graph)) =>
        \A p \in Dangling : DanglingHandled(scripts[p[1]].name, p[2])

\* a run over an acyclic graph that warned about a dangling name and executed
\* its dependent, beside another executed script
C11_Witness ==
    /\ RunEnded
    /\ ~HasCycle(dependency_graph)
    /\ \E p \in Dangling :
          /\ WarnedMissingAt(p[2]) > 0
          /\ ExecutedAt(scripts[p[1]].name) > WarnedMissingAt(p[2])
          /\ \E n \in Executed : n # scripts[p[1]].name


\* ---- phases of a run
\* the names of the executed files of the run, in the order of execution
ExecutedNames == [k \in 1..Cardinality(EventIndexes("contents")) |->
    events[CHOOSE i \in EventIndexes("contents") :
              Cardinality({j \in EventIndexes("contents") : j <= i}) = k].name]

\* the migrations that passed check_migration against the log the run found,
\* in discovery order
RECURSIVE PassedMigrationGate(_)
PassedMigrationGate(ms) ==
    IF ms = <<>> THEN <<>>
    ELSE (IF check_migration(logAtStart, Head(ms).name, Head(ms).checksum).apply
          THEN <<Head(ms).name>> ELSE <<>>) \o PassedMigrationGate(Tail(ms))

MigrationNames == {migrations[i].name : i \in DOMAIN migrations}

\* C13: in every run the executed files begin with the surviving migrations, in
\* discovery order, and whatever is executed after them is no migration.
C13_PhaseOrdering ==
    RunEnded =>
        LET passed == PassedMigrationGate(migrations)
        IN  /\ Len(ExecutedNames) >= Len(passed)
            /\ SubSeq(ExecutedNames, 1, Len(passed)) = passed
            /\ \A k \in (Len(passed) + 1)..Len(ExecutedNames) :
                  ExecutedNames[k] \notin MigrationNames

\* a run that executed two migrations and then a script
C13_Witness ==
    /\ RunEnded
    /\ Len(PassedMigrationGate(migrations)) >= 2
    /\ Len(ExecutedNames) > Len(PassedMigrationGate(migrations))


\* ------------------------------------------------------ directive extraction
\* A text is a sequence of symbols: "--", a blank, the keywords "depends:" and
\* "sources:", the name characters "a" and "b", the comma, the line end "\n",
\* and "x" for any other statement text.
Whitespace == {" "}

FirstIndex(s, S) ==
    IF \E i \in DOMAIN s : s[i] \in S
    THEN Min({i \in DOMAIN s : s[i] \in S})
    ELSE 0

\* contents.splitlines(): the pieces between line ends; a line end at the very
\* end of the text opens no further line
RECURSIVE splitlines(_)
splitlines(text) ==
    IF text = <<>> THEN <<>>
    ELSE LET i == FirstIndex(text, {"\n"})
         IN  IF i = 0 THEN <<text>>
             ELSE <<SubSeq(text, 1, i - 1)>> \o splitlines(SubSeq(text, i + 1, Len(text)))

\* \s+ from position i on: the first position behind the run of whitespace
RECURSIVE SkipWhitespace(_, _)
SkipWhitespace(line, i) ==
    IF i <= Len(line) /\ line[i] \in Whitespace THEN SkipWhitespace(line, i + 1) ELSE i

\* re.compile(r'^--\s+<keyword>\s+(.*)$').match(line): whether it matches and
\* group(1)
RegexMatch(keyword, line) ==
    LET i == SkipWhitespace(line, 2)
        j == SkipWhitespace(line, i + 1)
    IN  IF /\ Len(line) >= 1
           /\ line[1] = "--"
           /\ i > 2
           /\ i <= Len(line)
           /\ line[i] = keyword
           /\ j > i + 1
        THEN [matched |-> TRUE, group1 |-> SubSeq(line, j, Len(line))]
        ELSE [matched |-> FALSE, group1 |-> <<>>]

DEPENDS_ON_REGEX(line) == RegexMatch("depends:", line)

SOURCES_REGEX(line) == RegexMatch("sources:", line)

\* str.split(","): a string without comma gives itself, the empty one included
RECURSIVE split(_, _)
split(str, sep) ==
    LET i == FirstIndex(str, {sep})
    IN  IF i = 0 THEN <<str>>
        ELSE <<SubSeq(str, 1, i - 1)>> \o split(SubSeq(str, i + 1, Len(str)), sep)

RECURSIVE lstrip(_)
lstrip(str) ==
    IF str # <<>> /\ Head(str) \in Whitespace THEN lstrip(Tail(str)) ELSE str

RECURSIVE rstrip(_)
rstrip(str) ==
    IF str # <<>> /\ str[Len(str)] \in Whitespace
    THEN rstrip(SubSeq(str, 1, Len(str) - 1)) ELSE str

\* the bug of trimming the front of a token only
strip_LeadingOnly(str) == lstrip(str)

\* dependency.strip()
strip(str) == rstrip(lstrip(str))

StripAll(strs) == [k \in DOMAIN strs |-> strip(strs[k])]

\* [d.strip() for line in lines if DEPENDS_ON_REGEX.match(line)
\*             for d in DEPENDS_ON_REGEX.match(line).group(1).split(",")]
RECURSIVE DependenciesOf(_)
DependenciesOf(lines) ==
    IF lines = <<>> THEN <<>>
    ELSE (IF DEPENDS_ON_REGEX(Head(lines)).matched
          THEN StripAll(split(DEPENDS_ON_REGEX(Head(lines)).group1, ","))
          ELSE <<>>)
         \o DependenciesOf(Tail(lines))

extract_depends_on(contents) == DependenciesOf(splitlines(contents))

\* the same with SOURCES_REGEX
RECURSIVE SourcesOf(_)
SourcesOf(lines) ==
    IF lines = <<>> THEN <<>>
    ELSE (IF SOURCES_REGEX(Head(lines)).matched
          THEN StripAll(split(SOURCES_REGEX(Head(lines)).group1, ","))
          ELSE <<>>)
         \o SourcesOf(Tail(lines))

extract_sources(contents) == SourcesOf(splitlines(contents))

\* ---- SpecExtract: the two functions on every text of up to MaxLines lines
\* Each line is one of the line starts below followed by a body over names,
\* commas and blanks; the bodies have at most MaxBody symbols in all.  The
\* lines are joined by "\n", so a text whose last line is empty ends in "\n".
LineStarts ==
    { <<>>,
      <<"--", " ", "depends:", " ">>,
      <<"--", " ", "sources:", " ">>,
      <<"x", " ", "--", " ", "depends:", " ">>,
      <<"--", " ", "depends:">>,
      <<"--", "depends:", " ">> }

BodySymbols == {"a", "b", ",", " "}

RECURSIVE JoinLines(_)
JoinLines(lines) ==
    IF lines = <<>> THEN <<>>
    ELSE IF Len(lines) = 1 THEN Head(lines)
    ELSE Head(lines) \o <<"\n">> \o JoinLines(Tail(lines))

TextOf(n, starts, lens, flat) ==
    JoinLines([k \in 1..n |->
        starts[k] \o SubSeq(flat, SumTo(lens, k - 1) + 1, SumTo(lens, k))])

InitExtract ==
    /\ \E n \in 0..MaxLines : \E starts \in [1..n -> LineStarts] :
          \E lens \in [1..n -> 0..MaxBody] :
             /\ SumTo(lens, n) <= MaxBody
             /\ \E flat \in [1..SumTo(lens, n) -> BodySymbols] :
                   extract = [contents |-> TextOf(n, starts, lens, flat),
                              depends_on |-> <<>>, sources |-> <<>>, done |-> FALSE]
    /\ log = <<>>
    /\ GateIdle
    /\ SortIdle
    /\ MainIdle
    /\ BuildIdle

\* depends_on = extract_depends_on(contents); sources = extract_sources(contents)
ExtractDirectives ==
    /\ ~extract.done
    /\ extract' = [extract EXCEPT !.depends_on = extract_depends_on(extract.contents),
                                  !.sources = extract_sources(extract.contents),
                                  !.done = TRUE]
    /\ UNCHANGED <<log, gate, build, sortVars, mainVars>>

NextExtract == ExtractDirectives

SpecExtract == InitExtract /\ [][NextExtract]_vars


\* ---- an independent reading of a text, by positions, for the statement below
LineEnds(text) == {i \in DOMAIN text : text[i] = "\n"}

\* the k-th smallest element of a set of numbers
NthOf(S, k) == CHOOSE x \in S : Cardinality({y \in S : y <= x}) = k

NumLines(text) ==
    Cardinality(LineEnds(text)) + (IF text # <<>> /\ text[Len(text)] # "\n" THEN 1 ELSE 0)

LineAt(text, k) ==
    LET from == IF k = 1 THEN 1 ELSE NthOf(LineEnds(text), k - 1) + 1
        to == IF k <= Cardinality(LineEnds(text)) THEN NthOf(LineEnds(text), k) - 1
              ELSE Len(text)
    IN  SubSeq(text, from, to)

\* the line starts with the directive: "--", blanks, the keyword, a blank
StartsWithDirective(line, keyword) ==
    \E i \in 3..(Len(line) - 1) :
        /\ line[1] = "--"
        /\ \A k \in 2..(i - 1) : line[k] \in Whitespace
        /\ line[i] = keyword
        /\ line[i + 1] \in Whitespace

\* what follows the keyword of a directive line
Payload(line, keyword) ==
    SubSeq(line, Min({i \in DOMAIN line : line[i] = keyword}) + 1, Len(line))

Trimmed(str) ==
    LET solid == {i \in DOMAIN str : str[i] \notin Whitespace}
    IN  IF solid = {} THEN <<>> ELSE SubSeq(str, Min(solid), Max(solid))

\* the trimmed pieces between the commas of a payload
TokensOf(payload) ==
    LET commas == {i \in DOMAIN payload : payload[i] = ","}
        n == Cardinality(commas) + 1
        cut(m) == IF m = 0 THEN 0 ELSE IF m = n THEN Len(payload) + 1 ELSE NthOf(commas, m)
    IN  [m \in 1..n |-> Trimmed(SubSeq(payload, cut(m - 1) + 1, cut(m) - 1))]

\* the tokens of the directive lines among the first k lines, in line order
RECURSIVE DirectiveTokens(_, _, _)
DirectiveTokens(text, keyword, k) ==
    IF k = 0 THEN <<>>
    ELSE DirectiveTokens(text, keyword, k - 1)
         \o (IF StartsWithDirective(LineAt(text, k), keyword)
             THEN TokensOf(Payload(LineAt(text, k), keyword)) ELSE <<>>)

\* C15: extract_depends_on returns, in line order, the trimmed comma-separated
\* tokens of the lines that start with the depends directive and of no other
\* line (not of a line where the directive stands later, not of a sources
\* line), and extract_sources does the same for the sources directive.
C15_DirectiveExtraction ==
    extract.done =>
        /\ extract.depends_on =
              DirectiveTokens(extract.contents, "depends:", NumLines(extract.contents))
        /\ extract.sources =
              DirectiveTokens(extract.contents, "sources:", NumLines(extract.contents))

\* the text "-- depends: a, b" / "-- depends: a" extracted to [a, b, a]
C15_Witness ==
    /\ extract.done
    /\ extract.contents = <<"--", " ", "depends:", " ", "a", ",", " ", "b", "\n",
                            "--", " ", "depends:", " ", "a">>
    /\ extract.depends_on = << <<"a">>, <<"b">>, <<"a">> >>
    /\ extract.sources = <<>>


\* ---- executed scripts of a run
\* how many times the run executed the file of that name
TimesExecuted(name) == Cardinality({i \in EventIndexes("contents") : events[i].name = name})

\* C16: in a run whose graph is acyclic (script names are unique), every script
\* that is new or changed against the log the run found is executed exactly
\* once, and every other script is not executed.
C16_ExecutedExactlySurvivors ==
    (RunEnded /\ ~HasCycle(dependency_graph)) =>
        \A i \in DOMAIN scripts :
            TimesExecuted(scripts[i].name) = IF NewOrChanged(scripts[i]) THEN 1 ELSE 0

\* a run over an acyclic graph that executed a changed script that declares a
\* dependency, and left out an unchanged one
C16_Witness ==
    /\ RunEnded
    /\ ~HasCycle(dependency_graph)
    /\ \E i, j \in DOMAIN scripts :
          /\ NewOrChanged(scripts[i])
          /\ scripts[i].depends_on # <<>>
          /\ TimesExecuted(scripts[i].name) = 1
          /\ ~NewOrChanged(scripts[j])
          /\ TimesExecuted(scripts[j].name) = 0

====
